---- MODULE Spec2Model ----
(***************************************************************************)
(* State-machine model of arch/arm64/kernel/topology.c:                    *)
(*   - the per-CPU topology table, its reset, the MPIDR derivation and the *)
(*     sibling masks;                                                      *)
(*   - the cpu-map discovery (parse_cluster / parse_core) run by           *)
(*     init_cpu_topology;                                                  *)
(*   - the scheduling-domain degeneracy predicates;                        *)
(*   - build_perf_domains with lock-free readers and deferred reclamation. *)
(***************************************************************************)
EXTENDS Integers, Sequences, FiniteSets, TLC

(***************************************************************************)
(* Bounds of the model.                                                    *)
(***************************************************************************)
\* number of possible CPUs of the topology table (for_each_possible_cpu)
NCPU == 2

CPUs == 0 .. (NCPU - 1)

\* values an 8-bit MPIDR affinity field takes in the model
AffValues == {0, 1}

\* thread indexes a discovery write may carry (thread%d children of a core)
ThreadIdx == {0, 1}

(***************************************************************************)
(* Variables.                                                              *)
(***************************************************************************)
VARIABLES
    cpu_topology,   \* struct cpu_topology cpu_topology[NR_CPUS]
    cluster_id,     \* static int cluster_id of parse_cluster
    dt,             \* the device tree init_cpu_topology was run on
    init_pc,        \* "boot" before init_cpu_topology, "done" after it
    init_ret,       \* what parse_dt_topology returned
    init_log,       \* the calls init_cpu_topology made, in order
    sd_call,        \* the last call of a degeneracy predicate and its result
    rd_pd,          \* rd->pd: the published list of performance domains
    rd_map,         \* the cpu_map of the build that assigned rd->pd last
    heap,           \* the struct perf_domain objects
    bld,            \* per invocation of build_perf_domains: its locals
    readers,        \* per reader: its read-side section and what it read
    rcu_cbs,        \* callbacks queued by call_rcu and not yet run
    sched_energy_mutex, \* its owner (0 when free) and the callers waiting for it
    eas_in,         \* what build_perf_domains reads from the platform: the
                    \* cpu_map of the root domain, sd_asym_cpucapacity, the
                    \* energy model, the cpufreq policies; and how its runs ended
    store_call      \* the last store_cpu_topology call: its cpuid, the U and
                    \* MT bits of the MPIDR it read, whether it found the CPU
                    \* populated, and the parity of the number of calls

topo_vars == <<cpu_topology, store_call>>

init_vars == <<cluster_id, dt, init_pc, init_ret, init_log>>

sd_vars == <<sd_call>>

pd_vars == <<rd_pd, rd_map, heap, bld, readers, rcu_cbs, sched_energy_mutex,
            eas_in>>

vars == <<cpu_topology, cluster_id, dt, init_pc, init_ret, init_log, sd_call,
          rd_pd, rd_map, heap, bld, readers, rcu_cbs, sched_energy_mutex,
          eas_in, store_call>>

(***************************************************************************)
(* Topology table.                                                         *)
(***************************************************************************)

\* reset_cpu_topology(): every CPU gets thread_id -1, core_id 0,
\* cluster_id -1 and singleton sibling masks.
reset_cpu_topology ==
    [cpu \in CPUs |->
        [thread_id      |-> -1,
         core_id        |-> 0,
         cluster_id     |-> -1,
         core_sibling   |-> {cpu},
         thread_sibling |-> {cpu}]]

\* One iteration of the for_each_possible_cpu loop of update_siblings_masks.
UsmStepOneWay(t, cpuid, cpu) ==
    IF t[cpuid].cluster_id # t[cpu].cluster_id
    THEN t
    ELSE LET t1 == [t EXCEPT ![cpu].core_sibling = @ \cup {cpuid}]
         IN  IF t1[cpuid].core_id # t1[cpu].core_id
             THEN t1
             ELSE [t1 EXCEPT ![cpu].thread_sibling = @ \cup {cpuid}]

\* One iteration with the thread_sibling masks assigned instead of or-ed.
UsmStepAssign(t, cpuid, cpu) ==
    IF t[cpuid].cluster_id # t[cpu].cluster_id
    THEN t
    ELSE LET t1 == [t EXCEPT ![cpu].core_sibling = @ \cup {cpuid}]
             t2 == IF cpu # cpuid
                   THEN [t1 EXCEPT ![cpuid].core_sibling = @ \cup {cpu}]
                   ELSE t1
         IN  IF t2[cpuid].core_id # t2[cpu].core_id
             THEN t2
             ELSE LET t3 == [t2 EXCEPT ![cpu].thread_sibling = {cpuid}]
                  IN  IF cpu # cpuid
                      THEN [t3 EXCEPT ![cpuid].thread_sibling = {cpu}]
                      ELSE t3

UsmStep(t, cpuid, cpu) ==
    IF t[cpuid].cluster_id # t[cpu].cluster_id
    THEN t
    ELSE LET t1 == [t EXCEPT ![cpu].core_sibling = @ \cup {cpuid}]
             t2 == IF cpu # cpuid
                   THEN [t1 EXCEPT ![cpuid].core_sibling = @ \cup {cpu}]
                   ELSE t1
         IN  IF t2[cpuid].core_id # t2[cpu].core_id
             THEN t2
             ELSE LET t3 == [t2 EXCEPT ![cpu].thread_sibling = @ \cup {cpuid}]
                  IN  IF cpu # cpuid
                      THEN [t3 EXCEPT ![cpuid].thread_sibling = @ \cup {cpu}]
                      ELSE t3

RECURSIVE UsmLoop(_, _, _)
UsmLoop(t, cpuid, cpu) ==
    IF cpu >= NCPU THEN t ELSE UsmLoop(UsmStep(t, cpuid, cpu), cpuid, cpu + 1)

\* update_siblings_masks(cpuid)
update_siblings_masks(t, cpuid) == UsmLoop(t, cpuid, 0)

\* MPIDR_EL1 layout used by store_cpu_topology.
MPIDR_UP_BITMASK == 2^30
MPIDR_MT_BITMASK == 2^24
MPIDR_LEVEL_BITS == 8
MPIDR_LEVEL_MASK == 2^MPIDR_LEVEL_BITS - 1

\* (mpidr & mask) != 0 for a single-bit mask
BitSet(mpidr, bitmask) == (mpidr \div bitmask) % 2 = 1

\* MPIDR_AFFINITY_LEVEL(mpidr, level)
MPIDR_AFFINITY_LEVEL(mpidr, level) ==
    (mpidr \div (2^(MPIDR_LEVEL_BITS * level))) % (MPIDR_LEVEL_MASK + 1)

\* register values read_cpuid_mpidr() may return in the model
MpidrValues ==
    { up * MPIDR_UP_BITMASK + mt * MPIDR_MT_BITMASK
        + a2 * 2^16 + a1 * 2^8 + a0 :
        up \in {0, 1}, mt \in {0, 1},
        a0 \in AffValues, a1 \in AffValues, a2 \in AffValues }

\* store_cpu_topology(cpuid), with mpidr the value read_cpuid_mpidr() returns
\* store_cpu_topology without its test of cluster_id: the ids are derived
\* from MPIDR on every call
store_cpu_topology_always(t, cpuid, mpidr) ==
    IF BitSet(mpidr, MPIDR_UP_BITMASK)
    THEN t
    ELSE IF BitSet(mpidr, MPIDR_MT_BITMASK)
    THEN update_siblings_masks(
            [t EXCEPT ![cpuid].thread_id = MPIDR_AFFINITY_LEVEL(mpidr, 0),
                      ![cpuid].core_id = MPIDR_AFFINITY_LEVEL(mpidr, 1),
                      ![cpuid].cluster_id = MPIDR_AFFINITY_LEVEL(mpidr, 2)],
            cpuid)
    ELSE update_siblings_masks(
            [t EXCEPT ![cpuid].thread_id = -1,
                      ![cpuid].core_id = MPIDR_AFFINITY_LEVEL(mpidr, 0),
                      ![cpuid].cluster_id = MPIDR_AFFINITY_LEVEL(mpidr, 1)],
            cpuid)

store_cpu_topology(t, cpuid, mpidr) ==
    IF t[cpuid].cluster_id # -1
    THEN update_siblings_masks(t, cpuid)
    ELSE IF BitSet(mpidr, MPIDR_UP_BITMASK)
    THEN t
    ELSE IF BitSet(mpidr, MPIDR_MT_BITMASK)
    THEN update_siblings_masks(
            [t EXCEPT ![cpuid].thread_id  = MPIDR_AFFINITY_LEVEL(mpidr, 0),
                      ![cpuid].core_id    = MPIDR_AFFINITY_LEVEL(mpidr, 1),
                      ![cpuid].cluster_id = MPIDR_AFFINITY_LEVEL(mpidr, 2)],
            cpuid)
    ELSE update_siblings_masks(
            [t EXCEPT ![cpuid].thread_id  = -1,
                      ![cpuid].core_id    = MPIDR_AFFINITY_LEVEL(mpidr, 0),
                      ![cpuid].cluster_id = MPIDR_AFFINITY_LEVEL(mpidr, 1)],
            cpuid)

\* the thread index is not stored
ThreadWriteNoThreadId(t, cpu, cl, core_id, i) ==
    [t EXCEPT ![cpu].cluster_id = cl,
              ![cpu].core_id    = core_id]

\* parse_core(): the write made for a thread%d child that resolves to cpu
ThreadWrite(t, cpu, cl, core_id, i) ==
    [t EXCEPT ![cpu].cluster_id = cl,
              ![cpu].core_id    = core_id,
              ![cpu].thread_id  = i]

\* parse_core(): the write made for a leaf core that resolves to cpu
CoreWrite(t, cpu, cl, core_id) ==
    [t EXCEPT ![cpu].cluster_id = cl,
              ![cpu].core_id    = core_id]

(***************************************************************************)
(* Device tree: the cpu-map node and what its nodes resolve to.            *)
(***************************************************************************)

\* What the "cpu" phandle of a core or thread node resolves to: a possible
\* CPU, or -1 when the node has no phandle or it matches no possible CPU.
CpuRef == -1 .. (NCPU - 1)

\* get_cpu_for_node(node)
get_cpu_for_node(ref) == IF ref \in CPUs THEN ref ELSE -1

EINVAL == 22

\* A core node is [threads |-> <<ref, ...>>, cpu |-> ref]: its thread0,
\* thread1, ... children in order and its own phandle.
\* A cluster node is [clusters |-> <<cluster, ...>>, cores |-> <<core, ...>>]:
\* its cluster0, cluster1, ... and core0, core1, ... children in order.

EmptyCluster == [clusters |-> <<>>, cores |-> <<>>]

CoresOfSize(n) ==
    { [threads |-> ts, cpu |-> c] : ts \in [1 .. (n - 1) -> CpuRef], c \in CpuRef }

RECURSIVE CoreSeqs(_)
CoreSeqs(m) ==
    IF m = 0 THEN { <<>> }
    ELSE UNION { { <<c>> \o s : c \in CoresOfSize(k), s \in CoreSeqs(m - k) } :
                 k \in 1 .. m }

RECURSIVE ClustersOfSize(_)
RECURSIVE ClusterSeqs(_)
ClusterSeqs(m) ==
    IF m = 0 THEN { <<>> }
    ELSE UNION { { <<c>> \o s : c \in ClustersOfSize(k), s \in ClusterSeqs(m - k) } :
                 k \in 1 .. m }

ClustersOfSize(n) ==
    UNION { { [clusters |-> cs, cores |-> co] :
                cs \in ClusterSeqs(a), co \in CoreSeqs(n - 1 - a) } :
            a \in 0 .. (n - 1) }

\* cpu-map nodes with exactly n nodes below them
MapsOfSize(n) ==
    UNION { { [clusters |-> cs, cores |-> co] :
                cs \in ClusterSeqs(a), co \in CoreSeqs(n - a) } :
            a \in 0 .. n }

\* nodes below cpu-map in the device trees of the model
MaxDtNodes == 4

DeviceTrees ==
    { [cpus |-> FALSE, has_map |-> FALSE, map |-> EmptyCluster],
      [cpus |-> TRUE,  has_map |-> FALSE, map |-> EmptyCluster] }
    \cup { [cpus |-> TRUE, has_map |-> TRUE, map |-> m] :
            m \in UNION { MapsOfSize(n) : n \in 0 .. MaxDtNodes } }

(***************************************************************************)
(* Discovery: parse_core, parse_cluster, parse_dt_topology.                *)
(* The parse state is [t |-> table, cluster_id |-> counter, ret |-> int].  *)
(***************************************************************************)

\* parse_core(): the thread%d loop from child i on
RECURSIVE ParseThreads(_, _, _, _, _)
ParseThreads(core, cl, core_id, i, t) ==
    IF i > Len(core.threads)
    THEN [ret |-> 0, t |-> t]
    ELSE LET cpu == get_cpu_for_node(core.threads[i])
         IN  IF cpu >= 0
             THEN ParseThreads(core, cl, core_id, i + 1,
                               ThreadWrite(t, cpu, cl, core_id, i - 1))
             ELSE [ret |-> -EINVAL, t |-> t]

\* parse_core(core, cluster_id, core_id)
parse_core(core, cl, core_id, t) ==
    LET th   == ParseThreads(core, cl, core_id, 1, t)
        leaf == Len(core.threads) = 0
        cpu  == get_cpu_for_node(core.cpu)
    IN  IF th.ret # 0 THEN th
        ELSE IF cpu >= 0
        THEN IF ~leaf
             THEN [ret |-> -EINVAL, t |-> th.t]
             ELSE [ret |-> 0, t |-> CoreWrite(th.t, cpu, cl, core_id)]
        ELSE IF leaf
        THEN [ret |-> -EINVAL, t |-> th.t]
        ELSE [ret |-> 0, t |-> th.t]

\* parse_cluster(): the core%d loop from child i on
RECURSIVE ParseCores(_, _, _, _, _)
ParseCores(cluster, depth, i, core_id, st) ==
    IF i > Len(cluster.cores)
    THEN [st EXCEPT !.ret = 0]
    ELSE IF depth = 0
    THEN [st EXCEPT !.ret = -EINVAL]
    ELSE IF cluster.clusters = <<>>
    THEN LET r == parse_core(cluster.cores[i], st.cluster_id, core_id, st.t)
         IN  IF r.ret # 0
             THEN [st EXCEPT !.ret = r.ret, !.t = r.t]
             ELSE ParseCores(cluster, depth, i + 1, core_id + 1,
                             [st EXCEPT !.t = r.t])
    ELSE [st EXCEPT !.ret = -EINVAL]

RECURSIVE parse_cluster(_, _, _)
RECURSIVE ParseClusters(_, _, _, _)
RECURSIVE ParseClustersContinue(_, _, _, _)
\* what a child cluster returned is not tested
ParseClustersContinue(cluster, depth, i, st) ==
    IF i > Len(cluster.clusters)
    THEN [st EXCEPT !.ret = 0]
    ELSE ParseClustersContinue(cluster, depth, i + 1,
                               parse_cluster(cluster.clusters[i], depth + 1, st))

\* parse_cluster(): the cluster%d loop from child i on
ParseClusters(cluster, depth, i, st) ==
    IF i > Len(cluster.clusters)
    THEN [st EXCEPT !.ret = 0]
    ELSE LET r == parse_cluster(cluster.clusters[i], depth + 1, st)
         IN  IF r.ret # 0 THEN r
             ELSE ParseClusters(cluster, depth, i + 1, r)

\* cluster_id++ is not under `if (leaf)`
parse_cluster_countall(cluster, depth, st) ==
    LET s1 == ParseClusters(cluster, depth, 1, st)
    IN  IF s1.ret # 0 THEN s1
        ELSE LET s2 == ParseCores(cluster, depth, 1, 0, s1)
             IN  IF s2.ret # 0 THEN s2
                 ELSE [s2 EXCEPT !.cluster_id = @ + 1, !.ret = 0]

\* parse_cluster(cluster, depth)
parse_cluster(cluster, depth, st) ==
    LET leaf == cluster.clusters = <<>>
        s1   == ParseClusters(cluster, depth, 1, st)
    IN  IF s1.ret # 0 THEN s1
        ELSE LET s2 == ParseCores(cluster, depth, 1, 0, s1)
             IN  IF s2.ret # 0 THEN s2
                 ELSE IF leaf
                 THEN [s2 EXCEPT !.cluster_id = @ + 1, !.ret = 0]
                 ELSE [s2 EXCEPT !.ret = 0]

\* parse_dt_topology(): the check that all possible CPUs are in the topology
AllCpusCheck(t) ==
    IF \E cpu \in CPUs : t[cpu].cluster_id = -1 THEN -EINVAL ELSE 0

\* parse_dt_topology()
parse_dt_topology(tree, st) ==
    IF ~tree.cpus THEN [st EXCEPT !.ret = 0]
    ELSE IF ~tree.has_map THEN [st EXCEPT !.ret = 0]
    ELSE LET r == parse_cluster(tree.map, 0, [st EXCEPT !.ret = 0])
         IN  IF r.ret # 0 THEN r
             ELSE [r EXCEPT !.ret = AllCpusCheck(r.t)]

RECURSIVE UpdateAllSiblings(_, _)
\* init_cpu_topology(): for_each_possible_cpu(cpu) update_siblings_masks(cpu)
UpdateAllSiblings(t, cpu) ==
    IF cpu >= NCPU THEN t
    ELSE UpdateAllSiblings(update_siblings_masks(t, cpu), cpu + 1)

\* init_cpu_topology(): what follows parse_dt_topology()
InitAfterParseNoReset(p) ==
    IF p.ret # 0
    THEN [t |-> p.t, log |-> <<>>]
    ELSE [t   |-> UpdateAllSiblings(p.t, 0),
          log |-> <<"update_siblings_masks", "set_sched_topology">>]

\* the sibling recompute and set_sched_topology() are not in an else branch
InitAfterParseAlways(p) ==
    IF p.ret # 0
    THEN [t   |-> UpdateAllSiblings(reset_cpu_topology, 0),
          log |-> <<"reset_cpu_topology", "update_siblings_masks",
                    "set_sched_topology">>]
    ELSE [t   |-> UpdateAllSiblings(p.t, 0),
          log |-> <<"update_siblings_masks", "set_sched_topology">>]

InitAfterParse(p) ==
    IF p.ret # 0
    THEN [t |-> reset_cpu_topology, log |-> <<"reset_cpu_topology">>]
    ELSE [t   |-> UpdateAllSiblings(p.t, 0),
          log |-> <<"update_siblings_masks", "set_sched_topology">>]

\* init_cpu_topology() run on the device tree `tree`
init_cpu_topology(tree, cid) ==
    LET p == parse_dt_topology(tree,
                [t |-> reset_cpu_topology, cluster_id |-> cid, ret |-> 0])
        a == InitAfterParse(p)
    IN  [t          |-> a.t,
         cluster_id |-> p.cluster_id,
         ret        |-> p.ret,
         log        |-> <<"reset_cpu_topology", "parse_dt_topology">> \o a.log
                            \o <<"init_sched_energy_costs">>]

\* the table before init_cpu_topology has run: zero-initialised
zero_cpu_topology ==
    [cpu \in CPUs |->
        [thread_id      |-> 0,
         core_id        |-> 0,
         cluster_id     |-> 0,
         core_sibling   |-> {},
         thread_sibling |-> {}]]

\* no init_cpu_topology in progress or recorded
InitIdle ==
    /\ cluster_id = 0
    /\ dt = [cpus |-> FALSE, has_map |-> FALSE, map |-> EmptyCluster]
    /\ init_pc = "boot"
    /\ init_ret = 0
    /\ init_log = <<>>

(***************************************************************************)
(* Scheduling-domain degeneracy: sd_degenerate, sd_parent_degenerate.      *)
(* A domain is [span |-> set of CPUs, flags |-> set of SD_ flags,          *)
(* groups |-> number of groups on its ring]; sd->groups is NULL iff the    *)
(* number is 0.                                                            *)
(***************************************************************************)

\* the flags sd_degenerate tests before looking at sd->groups
SdDegenerateGroupFlags ==
    { "SD_LOAD_BALANCE", "SD_BALANCE_NEWIDLE", "SD_BALANCE_FORK",
      "SD_BALANCE_EXEC", "SD_SHARE_CPUCAPACITY", "SD_ASYM_CPUCAPACITY",
      "SD_SHARE_PKG_RESOURCES", "SD_SHARE_POWERDOMAIN" }

\* the flags sd_parent_degenerate clears from pflags
SdParentGroupFlags ==
    { "SD_LOAD_BALANCE", "SD_BALANCE_NEWIDLE", "SD_BALANCE_FORK",
      "SD_BALANCE_EXEC", "SD_ASYM_CPUCAPACITY", "SD_SHARE_CPUCAPACITY",
      "SD_SHARE_PKG_RESOURCES", "SD_PREFER_SIBLING", "SD_SHARE_POWERDOMAIN" }

\* SD_WAKE_AFFINE is not looked at
sd_degenerate_nowake(sd) ==
    IF Cardinality(sd.span) = 1 THEN 1
    ELSE IF sd.flags \cap SdDegenerateGroupFlags # {} /\ sd.groups # 0 THEN 0
    ELSE 1

\* the weight of the span is not looked at
sd_degenerate_noweight(sd) ==
    IF sd.flags \cap SdDegenerateGroupFlags # {} /\ sd.groups # 0 THEN 0
    ELSE IF "SD_WAKE_AFFINE" \in sd.flags THEN 0
    ELSE 1

\* sd_degenerate(sd)
sd_degenerate(sd) ==
    IF Cardinality(sd.span) = 1 THEN 1
    ELSE IF sd.flags \cap SdDegenerateGroupFlags # {} /\ sd.groups # 0 THEN 0
    ELSE IF "SD_WAKE_AFFINE" \in sd.flags THEN 0
    ELSE 1

\* pflags of sd_parent_degenerate after the clearing of lines 468-480
ParentEffectiveFlags(parent, nr_node_ids) ==
    IF parent.groups # 0
    THEN (parent.flags \ SdParentGroupFlags)
            \ (IF nr_node_ids = 1 THEN {"SD_SERIALIZE"} ELSE {})
    ELSE parent.flags

sd_parent_degenerate_nospan(sd, parent, nr_node_ids) ==
    IF sd_degenerate(parent) = 1 THEN 1
    ELSE IF ParentEffectiveFlags(parent, nr_node_ids) \ sd.flags # {} THEN 0
    ELSE 1

\* sd_parent_degenerate(sd, parent)
sd_parent_degenerate(sd, parent, nr_node_ids) ==
    IF sd_degenerate(parent) = 1 THEN 1
    ELSE IF sd.span # parent.span THEN 0
    ELSE IF ParentEffectiveFlags(parent, nr_node_ids) \ sd.flags # {} THEN 0
    ELSE 1

\* largest number of groups of a domain in the model
MaxGroups == 2

\* flags the domains of the model carry: one of the flags both predicates
\* treat as needing groups, the flag only sd_parent_degenerate clears,
\* SD_SERIALIZE, SD_WAKE_AFFINE and a flag neither predicate names
TestedFlags ==
    { "SD_LOAD_BALANCE", "SD_PREFER_SIBLING", "SD_SERIALIZE",
      "SD_WAKE_AFFINE", "SD_NUMA" }

SdNodes ==
    [span : (SUBSET CPUs) \ {{}}, flags : SUBSET TestedFlags, groups : 0 .. MaxGroups]

NoSdNode == [span |-> {0}, flags |-> {}, groups |-> 0]

SdIdle ==
    sd_call = [fn |-> "none", sd |-> NoSdNode, parent |-> NoSdNode,
               nr_node_ids |-> 1, ret |-> 0]

(***************************************************************************)
(* Performance domains: build_perf_domains, its helpers, the readers of    *)
(* rd->pd and the deferred destruction of superseded lists.                *)
(***************************************************************************)

\* struct perf_domain objects the allocator can hand out
MaxPdNodes == 4

\* concurrent readers of rd->pd
Readers == {1, 2}

\* callers of build_perf_domains
Builders == {1, 2}

\* a build starts only while fewer than this many callbacks are queued
MaxPendingCbs == 1

PdNodes == 1 .. MaxPdNodes

EM_MAX_COMPLEXITY == 2048

\* numbers of capacity states an energy-model domain has in the model
CapStateCounts == {1, 2047}

\* em_cpu_get() found nothing
NoEm == [cpus |-> {}, nr_cap_states |-> 0]

\* a perf_domain object that is not allocated
FreeNode == [em_pd |-> NoEm, next |-> 0, st |-> "free"]

\* the list that starts at p: its objects, in order
RECURSIVE ChainN(_, _, _)
ChainN(h, p, fuel) ==
    IF p = 0 \/ fuel = 0 THEN <<>>
    ELSE <<p>> \o ChainN(h, h[p].next, fuel - 1)

Chain(h, p) == ChainN(h, p, MaxPdNodes)

ChainSet(h, p) == { Chain(h, p)[k] : k \in 1 .. Len(Chain(h, p)) }

\* perf_domain_span(pd)
perf_domain_span(h, p) == h[p].em_pd.cpus

\* free_pd(pd)
free_pd(h, p) ==
    [n \in PdNodes |-> IF n \in ChainSet(h, p) THEN FreeNode ELSE h[n]]

find_pd_none(h, p, cpu) == 0

\* find_pd(pd, cpu): the first object of the list whose span holds cpu, or 0
find_pd(h, p, cpu) ==
    LET c    == Chain(h, p)
        hits == { k \in 1 .. Len(c) : cpu \in perf_domain_span(h, c[k]) }
    IN  IF hits = {} THEN 0
        ELSE c[CHOOSE k \in hits : \A j \in hits : k <= j]

\* em_cpu_get(cpu): the energy-model domain of cpu, or NoEm.  The energy
\* model keeps one domain per CPU and its domains are disjoint: a CPU of a
\* domain already met in this pass is in that domain, any other CPU is in no
\* domain or in one that is disjoint from those met.
em_cpu_get(h, p, cpu) ==
    LET met == { h[n].em_pd : n \in ChainSet(h, p) }
        own == { e \in met : cpu \in e.cpus }
    IN  IF own # {} THEN own
        ELSE {NoEm} \cup
             { [cpus |-> S, nr_cap_states |-> k] :
                 S \in { T \in SUBSET CPUs :
                            cpu \in T /\ \A e \in met : T \cap e.cpus = {} },
                 k \in CapStateCounts }

\* kzalloc(): an unallocated object, or 0 when there is none
kzalloc(h) ==
    IF \E n \in PdNodes : h[n].st = "free"
    THEN CHOOSE n \in PdNodes :
            h[n].st = "free" /\ \A m \in PdNodes : h[m].st = "free" => n <= m
    ELSE 0

\* for_each_cpu(): the first CPU of the map above `after`, NCPU when none
cpumask_next(after, map) ==
    IF \E c \in map : c > after
    THEN CHOOSE c \in map : c > after /\ \A d \in map : d > after => c <= d
    ELSE NCPU

\* call_rcu(&tmp->rcu, destroy_perf_domain_rcu): the callback waits for the
\* readers that are inside a read-side section now
call_rcu(cbs, rds, p) ==
    cbs \cup { [head |-> p, waiting |-> { r \in Readers : rds[r].st # "out" }] }

\* `if (tmp) call_rcu(&tmp->rcu, destroy_perf_domain_rcu)`
RetireSync(h, cbs, rds, tmp) ==
    [heap |-> IF tmp # 0 THEN free_pd(h, tmp) ELSE h, rcu_cbs |-> cbs]

Retire(h, cbs, rds, tmp) ==
    [heap |-> h, rcu_cbs |-> IF tmp # 0 THEN call_rcu(cbs, rds, tmp) ELSE cbs]

\* locals of an invocation that has not started or has returned
IdleBuilder ==
    [pc |-> "idle", cpu_map |-> {}, i |-> 0, pd |-> 0, tmp |-> 0,
     nr_pd |-> 0, nr_cs |-> 0, nr_cpus |-> 0, why |-> "none", entry |-> 0]

PdIdle ==
    /\ rd_pd = 0
    /\ rd_map = {}
    /\ heap = [n \in PdNodes |-> FreeNode]
    /\ bld = [b \in Builders |-> IdleBuilder]
    /\ readers = [r \in Readers |-> [st |-> "out", p |-> 0]]
    /\ rcu_cbs = {}
    /\ sched_energy_mutex = [owner |-> 0, waiting |-> {}]

\* the platform inputs are not fixed: each step of build_perf_domains draws
\* what it reads
NoEasIn == [cpu_map |-> {}, asym |-> FALSE, em |-> [c \in CPUs |-> NoEm],
            gov |-> [c \in CPUs |-> "none"], log |-> <<>>]

EasIdle == eas_in = NoEasIn

\* ---- build_perf_domains(cpu_map), one action per step ------------------

\* the counters start from the published list instead of 0
StartLocalsKeepCounts(b, map, asym) ==
    [pc      |-> IF asym THEN "loop" ELSE "free",
     cpu_map |-> map,
     i       |-> cpumask_next(-1, map),
     pd      |-> 0,
     tmp     |-> 0,
     nr_pd   |-> Len(Chain(heap, rd_pd)),
     nr_cs   |-> IF rd_pd = 0 THEN 0
                 ELSE heap[rd_pd].em_pd.nr_cap_states * Len(Chain(heap, rd_pd)),
     nr_cpus |-> Cardinality(map),
     why     |-> IF asym THEN "none" ELSE "asym",
     entry   |-> rd_pd]

\* lines 587-601: the locals and the asymmetric-capacity test;
\* asym is per_cpu(sd_asym_cpucapacity, cpumask_first(cpu_map))
StartLocals(b, map, asym) ==
    [pc      |-> IF asym THEN "loop" ELSE "free",
     cpu_map |-> map,
     i       |-> cpumask_next(-1, map),
     pd      |-> 0,
     tmp     |-> 0,
     nr_pd   |-> 0,
     nr_cs   |-> 0,
     nr_cpus |-> Cardinality(map),
     why     |-> IF asym THEN "none" ELSE "asym",
     entry   |-> rd_pd]

BuildStart(b) ==
    /\ bld[b].pc = "idle"
    /\ Cardinality(rcu_cbs) < MaxPendingCbs
    /\ \E map \in (SUBSET CPUs) \ {{}}, asym \in BOOLEAN :
        bld' = [bld EXCEPT ![b] = StartLocals(b, map, asym)]
    /\ UNCHANGED <<rd_pd, rd_map, heap, readers, rcu_cbs>>

\* the iteration of the for_each_cpu loop for CPU bld[b].i is done
Advance(r) ==
    LET n == cpumask_next(r.i, r.cpu_map)
    IN  [r EXCEPT !.i = n, !.pc = IF n >= NCPU THEN "check" ELSE "loop"]

\* the iteration ends in `goto free`
Abort(r, why) == [r EXCEPT !.pc = "free", !.why = why]

\* lines 603-634: what one iteration of the loop may leave, as
\* [r |-> locals, heap |-> objects]
IterResults(b) ==
    LET r == bld[b]
    IN  IF find_pd(heap, r.pd, r.i) # 0
        THEN { [r |-> Advance(r), heap |-> heap] }
        ELSE \* cpufreq_cpu_get() returned NULL
             { [r |-> Abort(r, "nopolicy"), heap |-> heap] }
             \cup \* policy->governor is not schedutil
             { [r |-> Abort(r, "governor"), heap |-> heap] }
             \cup \* pd_init(): em_cpu_get() returned NULL
             { [r |-> Abort(r, "noem"), heap |-> heap] :
                 e \in { x \in em_cpu_get(heap, r.pd, r.i) : x = NoEm } }
             \cup \* pd_init(): kzalloc() returned NULL
             { [r |-> Abort(r, "nomem"), heap |-> heap] }
             \cup \* the new pd is put at the head of the local list
             { [r    |-> Advance([r EXCEPT !.pd    = kzalloc(heap),
                                           !.tmp   = kzalloc(heap),
                                           !.nr_pd = @ + 1,
                                           !.nr_cs = @ + e.nr_cap_states]),
                heap |-> [heap EXCEPT ![kzalloc(heap)] =
                            [em_pd |-> e, next |-> r.pd, st |-> "used"]]] :
                 e \in { x \in em_cpu_get(heap, r.pd, r.i) :
                            x # NoEm /\ kzalloc(heap) # 0 } }

BuildIterEager(b) ==
    /\ bld[b].pc = "loop"
    /\ \E res \in IterResults(b) :
        /\ bld' = [bld EXCEPT ![b] = res.r]
        /\ heap' = res.heap
        /\ rd_pd' = res.r.pd
    /\ UNCHANGED <<rd_map, readers, rcu_cbs>>

BuildIter(b) ==
    /\ bld[b].pc = "loop"
    /\ \E res \in IterResults(b) :
        /\ bld' = [bld EXCEPT ![b] = res.r]
        /\ heap' = res.heap
    /\ UNCHANGED <<rd_pd, rd_map, readers, rcu_cbs>>

ComplexityTooHighOffByOne(nr_pd, nr_cs, nr_cpus) ==
    nr_pd * (nr_cs + nr_cpus) >= EM_MAX_COMPLEXITY

\* line 637: nr_pd * (nr_cs + nr_cpus) > EM_MAX_COMPLEXITY
ComplexityTooHigh(nr_pd, nr_cs, nr_cpus) ==
    nr_pd * (nr_cs + nr_cpus) > EM_MAX_COMPLEXITY

\* lines 636-641
BuildCheck(b) ==
    /\ bld[b].pc = "check"
    /\ bld' = [bld EXCEPT ![b] =
                IF ComplexityTooHigh(@.nr_pd, @.nr_cs, @.nr_cpus)
                THEN Abort(@, "complexity")
                ELSE [@ EXCEPT !.pc = "attach", !.why = "ok"]]
    /\ UNCHANGED <<rd_pd, rd_map, heap, readers, rcu_cbs>>

\* lines 646-647: tmp = rd->pd; rcu_assign_pointer(rd->pd, pd)
BuildAttach(b) ==
    /\ bld[b].pc = "attach"
    /\ bld' = [bld EXCEPT ![b].tmp = rd_pd, ![b].pc = "attach_rcu"]
    /\ rd_pd' = bld[b].pd
    /\ rd_map' = bld[b].cpu_map
    /\ UNCHANGED <<heap, readers, rcu_cbs>>

\* lines 648-651: if (tmp) call_rcu(...); return
BuildAttachRcu(b) ==
    /\ bld[b].pc = "attach_rcu"
    /\ LET x == Retire(heap, rcu_cbs, readers, bld[b].tmp)
       IN  /\ heap' = x.heap
           /\ rcu_cbs' = x.rcu_cbs
    /\ bld' = [bld EXCEPT ![b] = IdleBuilder]
    /\ UNCHANGED <<rd_pd, rd_map, readers>>

\* line 654: free_pd(pd)
BuildFree(b) ==
    /\ bld[b].pc = "free"
    /\ heap' = free_pd(heap, bld[b].pd)
    /\ bld' = [bld EXCEPT ![b].pc = "free_swap"]
    /\ UNCHANGED <<rd_pd, rd_map, readers, rcu_cbs>>

BuildFreeSwapKeep(b) ==
    /\ bld[b].pc = "free_swap"
    /\ bld' = [bld EXCEPT ![b].tmp = 0, ![b].pc = "free_rcu"]
    /\ UNCHANGED <<rd_pd, rd_map, heap, readers, rcu_cbs>>

BuildFreeSwapKeepIfAsym(b) ==
    /\ bld[b].pc = "free_swap"
    /\ bld' = [bld EXCEPT ![b].tmp = IF bld[b].why = "asym" THEN 0 ELSE rd_pd,
                          ![b].pc = "free_rcu"]
    /\ rd_pd' = IF bld[b].why = "asym" THEN rd_pd ELSE 0
    /\ UNCHANGED <<rd_map, heap, readers, rcu_cbs>>

\* lines 655-656: tmp = rd->pd; rcu_assign_pointer(rd->pd, NULL)
BuildFreeSwap(b) ==
    /\ bld[b].pc = "free_swap"
    /\ bld' = [bld EXCEPT ![b].tmp = rd_pd, ![b].pc = "free_rcu"]
    /\ rd_pd' = 0
    /\ UNCHANGED <<rd_map, heap, readers, rcu_cbs>>

\* lines 657-661: if (tmp) call_rcu(...); the function ends
BuildFreeRcu(b) ==
    /\ bld[b].pc = "free_rcu"
    /\ LET x == Retire(heap, rcu_cbs, readers, bld[b].tmp)
       IN  /\ heap' = x.heap
           /\ rcu_cbs' = x.rcu_cbs
    /\ bld' = [bld EXCEPT ![b] = IdleBuilder]
    /\ UNCHANGED <<rd_pd, rd_map, readers>>

\* ---- readers of rd->pd and the RCU grace period ------------------------

\* rcu_read_lock()
ReaderLock(r) ==
    /\ readers[r].st = "out"
    /\ readers' = [readers EXCEPT ![r] = [st |-> "in", p |-> 0]]
    /\ UNCHANGED <<rd_pd, rd_map, heap, bld, rcu_cbs>>

\* pd = rcu_dereference(rd->pd)
ReaderDeref(r) ==
    /\ readers[r].st = "in"
    /\ readers' = [readers EXCEPT ![r] = [st |-> "ref", p |-> rd_pd]]
    /\ UNCHANGED <<rd_pd, rd_map, heap, bld, rcu_cbs>>

\* rcu_read_unlock(): no queued callback waits for this reader any longer
ReaderUnlock(r) ==
    /\ readers[r].st # "out"
    /\ readers' = [readers EXCEPT ![r] = [st |-> "out", p |-> 0]]
    /\ rcu_cbs' = { [cb EXCEPT !.waiting = @ \ {r}] : cb \in rcu_cbs }
    /\ UNCHANGED <<rd_pd, rd_map, heap, bld>>

\* destroy_perf_domain_rcu(rp), run once every reader the callback waited
\* for has left its read-side section
RcuCallback ==
    \E cb \in rcu_cbs :
        /\ cb.waiting = {}
        /\ heap' = free_pd(heap, cb.head)
        /\ rcu_cbs' = rcu_cbs \ {cb}
        /\ UNCHANGED <<rd_pd, rd_map, bld, readers>>

\* ---- the rebuild lock ---------------------------------------------------

\* mutex_lock(&sched_energy_mutex) is called by builder b, which is not in
\* build_perf_domains and does not hold or await the mutex
mutex_lock_request(b) ==
    /\ bld[b].pc = "idle"
    /\ sched_energy_mutex.owner # b
    /\ b \notin sched_energy_mutex.waiting
    /\ sched_energy_mutex' = [sched_energy_mutex EXCEPT !.waiting = @ \cup {b}]

mutex_lock_acquire_held(b) ==
    /\ b \in sched_energy_mutex.waiting
    /\ sched_energy_mutex' = [owner |-> b, waiting |-> sched_energy_mutex.waiting \ {b}]

\* mutex_lock(&sched_energy_mutex) returns to builder b: the mutex was free
mutex_lock_acquire(b) ==
    /\ b \in sched_energy_mutex.waiting
    /\ sched_energy_mutex.owner = 0
    /\ sched_energy_mutex' = [owner |-> b, waiting |-> sched_energy_mutex.waiting \ {b}]

\* mutex_unlock(&sched_energy_mutex) by builder b
mutex_unlock(b) ==
    /\ sched_energy_mutex.owner = b
    /\ sched_energy_mutex' = [sched_energy_mutex EXCEPT !.owner = 0]

\* no store_cpu_topology call has been made
NoStoreCall == [cpuid |-> 0, up |-> FALSE, mt |-> FALSE, populated |-> FALSE,
                seq |-> 0, online |-> FALSE]

StoreIdle == store_call = NoStoreCall

(***************************************************************************)
(* SpecTopo: the table under arbitrary discovery writes and calls.         *)
(***************************************************************************)
TopoInit ==
    /\ cpu_topology = reset_cpu_topology
    /\ InitIdle
    /\ StoreIdle
    /\ SdIdle
    /\ PdIdle
    /\ EasIdle

DiscoveryThreadWrite ==
    \E cpu \in CPUs, cl \in AffValues, co \in AffValues, i \in ThreadIdx :
        /\ cpu_topology' = ThreadWrite(cpu_topology, cpu, cl, co, i)
        /\ UNCHANGED <<init_vars, sd_vars, pd_vars, store_call>>

DiscoveryCoreWrite ==
    \E cpu \in CPUs, cl \in AffValues, co \in AffValues :
        /\ cpu_topology' = CoreWrite(cpu_topology, cpu, cl, co)
        /\ UNCHANGED <<init_vars, sd_vars, pd_vars, store_call>>

StoreCpuTopology ==
    \E cpuid \in CPUs, mpidr \in MpidrValues :
        /\ cpu_topology' = store_cpu_topology(cpu_topology, cpuid, mpidr)
        /\ UNCHANGED <<init_vars, sd_vars, pd_vars, store_call>>

UpdateSiblingsMasks ==
    \E cpuid \in CPUs :
        /\ cpu_topology' = update_siblings_masks(cpu_topology, cpuid)
        /\ UNCHANGED <<init_vars, sd_vars, pd_vars, store_call>>

TopoNext ==
    \/ DiscoveryThreadWrite
    \/ DiscoveryCoreWrite
    \/ StoreCpuTopology
    \/ UpdateSiblingsMasks

SpecTopo == TopoInit /\ [][TopoNext]_vars

(***************************************************************************)
(* C1: in every state reachable from the reset table by discovery writes,  *)
(* store_cpu_topology and update_siblings_masks calls, the sibling sets    *)
(* are reflexive (x in core_sibling(x)), symmetric (core and thread) and   *)
(* nested (thread_sibling(x) is a subset of core_sibling(x)).              *)
(***************************************************************************)
C1_SiblingsReflexiveSymmetricNested ==
    \A x \in CPUs :
        /\ x \in cpu_topology[x].core_sibling
        /\ cpu_topology[x].thread_sibling \subseteq cpu_topology[x].core_sibling
        /\ \A y \in CPUs :
            /\ (y \in cpu_topology[x].core_sibling
                    <=> x \in cpu_topology[y].core_sibling)
            /\ (y \in cpu_topology[x].thread_sibling
                    <=> x \in cpu_topology[y].thread_sibling)

\* two distinct CPUs are core siblings without being thread siblings, and
\* one of them has since been given another cluster id
C1_Witness ==
    \E x \in CPUs, y \in CPUs :
        /\ x # y
        /\ y \in cpu_topology[x].core_sibling
        /\ y \notin cpu_topology[x].thread_sibling
        /\ cpu_topology[x].cluster_id # cpu_topology[y].cluster_id

(***************************************************************************)
(* SpecInit: init_cpu_topology run once, at boot, on any device tree.      *)
(***************************************************************************)
BootInit ==
    /\ cpu_topology = zero_cpu_topology
    /\ InitIdle
    /\ StoreIdle
    /\ SdIdle
    /\ PdIdle
    /\ EasIdle

InitCpuTopology ==
    /\ init_pc = "boot"
    /\ \E tree \in DeviceTrees :
        LET r == init_cpu_topology(tree, cluster_id)
        IN  /\ dt' = tree
            /\ cpu_topology' = r.t
            /\ cluster_id' = r.cluster_id
            /\ init_ret' = r.ret
            /\ init_log' = r.log
            /\ init_pc' = "done"
            /\ UNCHANGED <<sd_vars, pd_vars, store_call>>

BootNext == InitCpuTopology

SpecInit == BootInit /\ [][BootNext]_vars

\* every CPU's record is the reset default
AllAtResetDefault ==
    \A cpu \in CPUs :
        /\ cpu_topology[cpu].cluster_id = -1
        /\ cpu_topology[cpu].core_id = 0
        /\ cpu_topology[cpu].thread_id = -1
        /\ cpu_topology[cpu].core_sibling = {cpu}
        /\ cpu_topology[cpu].thread_sibling = {cpu}

(***************************************************************************)
(* C6: if discovery fails at any point of the traversal, then when         *)
(* init_cpu_topology returns every CPU's record equals the reset default   *)
(* (cluster_id -1, core_id 0, thread_id -1, singleton sibling masks).      *)
(***************************************************************************)
C6_FailedDiscoveryLeavesDefaults ==
    (init_pc = "done" /\ init_ret # 0) => AllAtResetDefault

\* a core of the tree has a thread0 child that resolves to a CPU and also
\* resolves to a CPU itself
AmbiguousCore(c) ==
    /\ Len(c.threads) > 0
    /\ c.threads[1] \in CPUs
    /\ c.cpu \in CPUs

\* discovery failed on an ambiguous core of the first cluster, after the
\* core's thread CPU had been written
C6_Witness ==
    /\ init_pc = "done"
    /\ init_ret = -EINVAL
    /\ dt.has_map
    /\ Len(dt.map.clusters) > 0
    /\ dt.map.clusters[1].clusters = <<>>
    /\ Len(dt.map.clusters[1].cores) > 0
    /\ AmbiguousCore(dt.map.clusters[1].cores[1])

(***************************************************************************)
(* SpecSd: the degeneracy predicates applied to any domains.               *)
(***************************************************************************)
SdInit ==
    /\ cpu_topology = reset_cpu_topology
    /\ InitIdle
    /\ StoreIdle
    /\ SdIdle
    /\ PdIdle
    /\ EasIdle

CallSdDegenerate ==
    /\ sd_call.fn = "none"
    /\ \E d \in SdNodes :
        /\ sd_call' = [fn |-> "sd_degenerate", sd |-> d, parent |-> NoSdNode,
                       nr_node_ids |-> 1, ret |-> sd_degenerate(d)]
        /\ UNCHANGED <<topo_vars, init_vars, pd_vars>>

CallSdParentDegenerate ==
    /\ sd_call.fn = "none"
    /\ \E d \in SdNodes, p \in SdNodes, n \in {1, 2} :
        /\ sd_call' = [fn |-> "sd_parent_degenerate", sd |-> d, parent |-> p,
                       nr_node_ids |-> n, ret |-> sd_parent_degenerate(d, p, n)]
        /\ UNCHANGED <<topo_vars, init_vars, pd_vars>>

SdNext ==
    \/ CallSdDegenerate
    \/ CallSdParentDegenerate

SpecSd == SdInit /\ [][SdNext]_vars

(***************************************************************************)
(* C7 as stated: for every pair of domains d and p whose spans differ,     *)
(* sd_parent_degenerate(d, p) returns false.                               *)
(***************************************************************************)
C7_Original ==
    (sd_call.fn = "sd_parent_degenerate" /\ sd_call.sd.span # sd_call.parent.span)
        => sd_call.ret = 0

(***************************************************************************)
(* C7 as amended: for every pair of domains d and p whose spans differ,    *)
(* sd_parent_degenerate(d, p) returns false when p is not degenerate, and  *)
(* true when p is degenerate.                                              *)
(***************************************************************************)
C7_SpansDifferFalseUnlessParentDegenerate ==
    (sd_call.fn = "sd_parent_degenerate" /\ sd_call.sd.span # sd_call.parent.span)
        => (sd_call.ret = 1 <=> sd_degenerate(sd_call.parent) = 1)

\* a call with different spans and a parent that is not degenerate, whose
\* flags the child all carries: only the spans make the answer false
C7_Witness ==
    /\ sd_call.fn = "sd_parent_degenerate"
    /\ sd_call.sd.span # sd_call.parent.span
    /\ sd_degenerate(sd_call.parent) = 0
    /\ sd_call.parent.flags \subseteq sd_call.sd.flags
    /\ sd_call.ret = 0

(***************************************************************************)
(* SpecPd: build_perf_domains called again and again by one caller, with   *)
(* readers of rd->pd running at any time.                                  *)
(***************************************************************************)
PdInit ==
    /\ cpu_topology = reset_cpu_topology
    /\ InitIdle
    /\ StoreIdle
    /\ SdIdle
    /\ PdIdle
    /\ EasIdle

PdFrame == UNCHANGED <<topo_vars, init_vars, sd_vars, sched_energy_mutex, eas_in>>

PdNext ==
    \/ BuildStart(1) /\ PdFrame
    \/ BuildIter(1) /\ PdFrame
    \/ BuildCheck(1) /\ PdFrame
    \/ BuildAttach(1) /\ PdFrame
    \/ BuildAttachRcu(1) /\ PdFrame
    \/ BuildFree(1) /\ PdFrame
    \/ BuildFreeSwap(1) /\ PdFrame
    \/ BuildFreeRcu(1) /\ PdFrame
    \/ \E r \in Readers : ReaderLock(r) /\ PdFrame
    \/ \E r \in Readers : ReaderDeref(r) /\ PdFrame
    \/ \E r \in Readers : ReaderUnlock(r) /\ PdFrame
    \/ RcuCallback /\ PdFrame

SpecPd == PdInit /\ [][PdNext]_vars

\* the builder is between the start of build_perf_domains and its return
InBuild(b) == bld[b].pc # "idle"

\* the builder holds a local list it has not attached
HoldsLocalList(b) == bld[b].pc \in {"loop", "check", "attach", "free"}

\* build_perf_domains returns in this step
Ret(b) == bld[b].pc # "idle" /\ bld'[b].pc = "idle"

\* the reasons for which the loop or the complexity test ends in `goto free`
AbortReasons == {"nopolicy", "governor", "noem", "nomem", "complexity"}

\* the lists that have been assigned to rd->pd and are not yet destroyed:
\* the one rd->pd points to, those a queued callback will free, and the one
\* a builder has just replaced and not yet passed to call_rcu
PublishedHeads ==
    {rd_pd} \cup { cb.head : cb \in rcu_cbs }
            \cup { bld[b].tmp : b \in { x \in Builders :
                                        bld[x].pc \in {"attach_rcu", "free_rcu"} } }

PublishedNodes == UNION { ChainSet(heap, p) : p \in PublishedHeads }

\* the spans of the list that starts at p, in order
Spans(h, p) == [k \in 1 .. Len(Chain(h, p)) |-> perf_domain_span(h, Chain(h, p)[k])]

RECURSIVE SumCapStates(_, _)
SumCapStates(h, p) ==
    IF p = 0 THEN 0 ELSE h[p].em_pd.nr_cap_states + SumCapStates(h, h[p].next)

(***************************************************************************)
(* C2: a reader that reads rd->pd at any moment, while build_perf_domains  *)
(* runs, gets the empty list or a list that was assigned to rd->pd whole;  *)
(* no object of the list a builder is still building is reachable from     *)
(* rd->pd or from what a reader read.                                      *)
(***************************************************************************)
C2_ReadersNeverSeePartialList ==
    /\ \A r \in Readers :
        readers[r].st = "ref" => readers[r].p \in {0} \cup PublishedHeads
    /\ \A b \in Builders :
        HoldsLocalList(b) =>
            /\ ChainSet(heap, rd_pd) \cap ChainSet(heap, bld[b].pd) = {}
            /\ \A r \in Readers :
                readers[r].st = "ref" =>
                    ChainSet(heap, readers[r].p) \cap ChainSet(heap, bld[b].pd) = {}

\* a reader holds the published list while the builder is in its loop with
\* one domain already on its local list
C2_Witness ==
    \E r \in Readers, b \in Builders :
        /\ readers[r].st = "ref"
        /\ readers[r].p # 0
        /\ readers[r].p = rd_pd
        /\ bld[b].pc = "loop"
        /\ bld[b].pd # 0

(***************************************************************************)
(* C3: a list that was published and is then superseded is never freed     *)
(* while a reader that read it is still inside its read-side section; it   *)
(* is freed only by the queued callback, after every reader the callback   *)
(* waited for has left; build_perf_domains itself frees only objects that  *)
(* were never published.                                                   *)
(***************************************************************************)
C3_NoFreeBeforeReadersLeave ==
    [][ \A n \in PdNodes :
          (heap[n].st = "used" /\ heap'[n].st = "free") =>
              /\ \A r \in Readers :
                    readers[r].st = "ref" => n \notin ChainSet(heap, readers[r].p)
              /\ n \in PublishedNodes =>
                    \E cb \in rcu_cbs :
                        /\ cb.waiting = {}
                        /\ n \in ChainSet(heap, cb.head)
                        /\ cb \notin rcu_cbs'
      ]_vars

\* a callback is queued for a superseded list that a reader still holds
C3_Witness ==
    \E cb \in rcu_cbs, r \in Readers :
        /\ r \in cb.waiting
        /\ readers[r].st = "ref"
        /\ readers[r].p = cb.head

(***************************************************************************)
(* C4: whenever a build aborts (no energy model, no frequency policy,      *)
(* governor mismatch, allocation failure, complexity above the ceiling),   *)
(* rd->pd is the empty list when build_perf_domains returns, and the list  *)
(* published before, if any, is queued for deferred destruction.           *)
(***************************************************************************)
C4_AbortPublishesEmpty ==
    [][ \A b \in Builders :
          (Ret(b) /\ bld[b].why \in AbortReasons) =>
              /\ rd_pd' = 0
              /\ bld[b].entry # 0 =>
                    \E cb \in rcu_cbs' : cb.head = bld[b].entry
      ]_vars

\* an abort after one domain was built, with a list published before, about
\* to return
C4_Witness ==
    \E b \in Builders :
        /\ bld[b].pc = "free_rcu"
        /\ bld[b].why \in AbortReasons
        /\ bld[b].nr_pd >= 1
        /\ bld[b].entry # 0

(***************************************************************************)
(* C5 as stated: when the first CPU of the map has no asymmetric-capacity  *)
(* marker, the call changes nothing: rd->pd after the call is what it was  *)
(* before and nothing is queued for destruction.                           *)
(***************************************************************************)
C5_Original ==
    [][ \A b \in Builders :
          (Ret(b) /\ bld[b].why = "asym") =>
              /\ rd_pd' = bld[b].entry
              /\ rcu_cbs' = rcu_cbs
      ]_vars

(***************************************************************************)
(* C5 as amended: when the first CPU of the map has no asymmetric-capacity *)
(* marker, the call builds no domain and takes the abort path: rd->pd is   *)
(* the empty list when it returns and a list published before is queued    *)
(* for deferred destruction; only when nothing was published before does   *)
(* the call change nothing.                                                *)
(***************************************************************************)
C5_NoMarkerUnpublishes ==
    [][ \A b \in Builders :
          (Ret(b) /\ bld[b].why = "asym") =>
              /\ bld[b].nr_pd = 0
              /\ bld[b].pd = 0
              /\ rd_pd' = 0
              /\ bld[b].entry # 0 =>
                    \E cb \in rcu_cbs' : cb.head = bld[b].entry
              /\ bld[b].entry = 0 =>
                    (rcu_cbs' = rcu_cbs /\ heap' = heap /\ rd_pd' = rd_pd)
      ]_vars

\* a call without the marker, made while a list was published, is about to
\* return
C5_Witness ==
    \E b \in Builders :
        /\ bld[b].pc = "free_rcu"
        /\ bld[b].why = "asym"
        /\ bld[b].entry # 0

(***************************************************************************)
(* C8: a build whose precondition, energy-model lookups and governor       *)
(* checks all pass publishes its new non-empty list iff                    *)
(* nr_pd * (nr_cs + number of CPUs of the map) <= 2048, nr_pd being the    *)
(* number of domains created and nr_cs the sum of their capacity-state     *)
(* counts; above 2048 the empty list is published.                         *)
(***************************************************************************)
C8_ComplexityGate ==
    /\ [](\A b \in Builders :
            bld[b].pc = "check" =>
                /\ bld[b].nr_pd = Len(Chain(heap, bld[b].pd))
                /\ bld[b].nr_cs = SumCapStates(heap, bld[b].pd)
                /\ bld[b].nr_pd >= 1)
    /\ [][ \A b \in Builders :
            (Ret(b) /\ bld[b].why \in {"ok", "complexity"}) =>
                LET cx == bld[b].nr_pd * (bld[b].nr_cs + Cardinality(bld[b].cpu_map))
                IN  /\ cx <= 2048 =>
                        /\ rd_pd' = bld[b].pd
                        /\ rd_pd' # 0
                        /\ Len(Chain(heap', rd_pd')) = bld[b].nr_pd
                        /\ SumCapStates(heap', rd_pd') = bld[b].nr_cs
                    /\ cx > 2048 => rd_pd' = 0
          ]_vars

\* a build whose complexity is exactly 2048 has attached its list
C8_Witness ==
    \E b \in Builders :
        /\ bld[b].pc = "attach_rcu"
        /\ bld[b].nr_pd * (bld[b].nr_cs + Cardinality(bld[b].cpu_map)) = 2048
        /\ rd_pd = bld[b].pd

\* no two objects of the list have spans with a common CPU
SpansDisjoint(h, p) ==
    \A j \in 1 .. Len(Chain(h, p)), k \in 1 .. Len(Chain(h, p)) :
        j # k => Spans(h, p)[j] \cap Spans(h, p)[k] = {}

SpansUnion(h, p) == UNION { Spans(h, p)[k] : k \in 1 .. Len(Chain(h, p)) }

(***************************************************************************)
(* C9 as stated: the published list is empty or its spans partition the    *)
(* map of the build that published it: every CPU of the map is in exactly  *)
(* one span, no two spans overlap, no span has a CPU outside the map.      *)
(***************************************************************************)
C9_Original ==
    rd_pd # 0 =>
        /\ SpansDisjoint(heap, rd_pd)
        /\ SpansUnion(heap, rd_pd) = rd_map

(***************************************************************************)
(* C9 as amended: the published list is empty or every CPU of the map of   *)
(* the build that published it is in exactly one span, no two spans        *)
(* overlap and every span holds a CPU of the map; a span is the CPU set of *)
(* an energy-model domain and may hold CPUs outside the map.               *)
(***************************************************************************)
C9_SpansCoverMapWithoutOverlap ==
    rd_pd # 0 =>
        /\ SpansDisjoint(heap, rd_pd)
        /\ rd_map \subseteq SpansUnion(heap, rd_pd)
        /\ \A k \in 1 .. Len(Chain(heap, rd_pd)) :
              Spans(heap, rd_pd)[k] \cap rd_map # {}

\* the published list has one domain for a map of two CPUs: the second CPU
\* was found covered and skipped
C9_Witness ==
    /\ rd_pd # 0
    /\ Len(Chain(heap, rd_pd)) = 1
    /\ Cardinality(rd_map) = 2

(***************************************************************************)
(* SpecLock: two callers rebuild the performance domains, each taking      *)
(* sched_energy_mutex around its call of build_perf_domains.               *)
(***************************************************************************)
LockFrame == UNCHANGED <<topo_vars, init_vars, sd_vars, eas_in>>

RequestRebuild(b) ==
    /\ mutex_lock_request(b)
    /\ UNCHANGED <<rd_pd, rd_map, heap, bld, readers, rcu_cbs>>

LockNext ==
    \/ \E b \in Builders : RequestRebuild(b) /\ LockFrame
    \/ \E b \in Builders : mutex_lock_acquire(b) /\ BuildStart(b) /\ LockFrame
    \/ \E b \in Builders :
          BuildIter(b) /\ UNCHANGED sched_energy_mutex /\ LockFrame
    \/ \E b \in Builders :
          BuildCheck(b) /\ UNCHANGED sched_energy_mutex /\ LockFrame
    \/ \E b \in Builders :
          BuildAttach(b) /\ UNCHANGED sched_energy_mutex /\ LockFrame
    \/ \E b \in Builders : BuildAttachRcu(b) /\ mutex_unlock(b) /\ LockFrame
    \/ \E b \in Builders :
          BuildFree(b) /\ UNCHANGED sched_energy_mutex /\ LockFrame
    \/ \E b \in Builders :
          BuildFreeSwap(b) /\ UNCHANGED sched_energy_mutex /\ LockFrame
    \/ \E b \in Builders : BuildFreeRcu(b) /\ mutex_unlock(b) /\ LockFrame
    \/ RcuCallback /\ UNCHANGED sched_energy_mutex /\ LockFrame

SpecLock == PdInit /\ [][LockNext]_vars

(***************************************************************************)
(* C10: builds are mutually exclusive: no two invocations of               *)
(* build_perf_domains are between their start and their publish or         *)
(* rollback at once; a build requested while another runs waits for the    *)
(* one rebuild lock and starts only after the running one has returned.    *)
(***************************************************************************)
C10_BuildsMutuallyExclusive ==
    /\ \A b1 \in Builders, b2 \in Builders :
        b1 # b2 => ~(InBuild(b1) /\ InBuild(b2))
    /\ \A b \in Builders :
        /\ InBuild(b) => sched_energy_mutex.owner = b
        /\ b \in sched_energy_mutex.waiting => ~InBuild(b)

\* a rebuild is requested while another caller is in the loop of its build
C10_Witness ==
    \E b1 \in Builders, b2 \in Builders :
        /\ b1 # b2
        /\ bld[b1].pc = "loop"
        /\ bld[b1].pd # 0
        /\ b2 \in sched_energy_mutex.waiting

(***************************************************************************)
(* SpecEas: build_perf_domains run repeatedly on one root domain whose     *)
(* platform inputs are fixed: the cpu_map, the sd_asym_cpucapacity marker  *)
(* of its first CPU, the energy model and the cpufreq policy of each CPU.  *)
(* kzalloc may still fail in any run.                                      *)
(***************************************************************************)

\* runs of build_perf_domains in one behaviour
MaxRuns == 2

\* em_cpu_get() for every CPU: no domain, or the domain the CPU belongs to,
\* which is the same object for every CPU of the domain
EmTables ==
    { f \in [CPUs -> {NoEm} \cup [cpus : (SUBSET CPUs) \ {{}},
                                  nr_cap_states : CapStateCounts]] :
        \A c \in CPUs :
            f[c] # NoEm => /\ c \in f[c].cpus
                           /\ \A d \in f[c].cpus : f[d] = f[c] }

\* cpufreq_cpu_get(cpu): no policy, or a policy with its governor
Governors == {"none", "schedutil", "other"}

EasInputs ==
    [cpu_map : (SUBSET CPUs) \ {{}}, asym : BOOLEAN, em : EmTables,
     gov : [CPUs -> Governors], log : {<<>>}]

EasInit ==
    /\ cpu_topology = reset_cpu_topology
    /\ InitIdle
    /\ StoreIdle
    /\ SdIdle
    /\ PdIdle
    /\ eas_in \in EasInputs

EasFrame == UNCHANGED <<topo_vars, init_vars, sd_vars, sched_energy_mutex>>

\* what the iteration for CPU bld[b].i read agrees with eas_in
IterAgrees(b) ==
    LET i == bld[b].i
        r == bld'[b]
    IN  /\ r.why = "nopolicy" => eas_in.gov[i] = "none"
        /\ r.why = "governor" => eas_in.gov[i] = "other"
        /\ r.why = "noem" => eas_in.gov[i] = "schedutil" /\ eas_in.em[i] = NoEm
        /\ r.why = "nomem" => eas_in.gov[i] = "schedutil" /\ eas_in.em[i] # NoEm
        /\ r.nr_pd # bld[b].nr_pd =>
                /\ eas_in.gov[i] = "schedutil"
                /\ heap'[r.pd].em_pd = eas_in.em[i]

EasStart(b) ==
    /\ Len(eas_in.log) < MaxRuns
    /\ BuildStart(b)
    /\ bld'[b].cpu_map = eas_in.cpu_map
    /\ (bld'[b].why = "asym") = ~eas_in.asym
    /\ UNCHANGED eas_in

EasIter(b) == BuildIter(b) /\ IterAgrees(b) /\ UNCHANGED eas_in

\* the run returns: its outcome is added to the log
EasReturn(b) == eas_in' = [eas_in EXCEPT !.log = Append(@, bld[b].why)]

EasNext ==
    \/ EasStart(1) /\ EasFrame
    \/ EasIter(1) /\ EasFrame
    \/ BuildCheck(1) /\ UNCHANGED eas_in /\ EasFrame
    \/ BuildAttach(1) /\ UNCHANGED eas_in /\ EasFrame
    \/ BuildAttachRcu(1) /\ EasReturn(1) /\ EasFrame
    \/ BuildFree(1) /\ UNCHANGED eas_in /\ EasFrame
    \/ BuildFreeSwap(1) /\ UNCHANGED eas_in /\ EasFrame
    \/ BuildFreeRcu(1) /\ EasReturn(1) /\ EasFrame
    \/ RcuCallback /\ UNCHANGED eas_in /\ EasFrame

SpecEas == EasInit /\ [][EasNext]_vars

\* builder b has replaced rd->pd and not yet returned: rd->pd is what the
\* run publishes and bld[b].tmp what the run before it published
Replaced(b) == bld[b].pc \in {"attach_rcu", "free_rcu"}

\* the lists that start at p and q have the same number of domains and the
\* same spans
EquivalentLists(h, p, q) ==
    /\ Len(Chain(h, p)) = Len(Chain(h, q))
    /\ { Spans(h, p)[k] : k \in 1 .. Len(Chain(h, p)) }
         = { Spans(h, q)[k] : k \in 1 .. Len(Chain(h, q)) }

C16_Original ==
    (/\ Replaced(1)
     /\ \E c \in bld[1].cpu_map : eas_in.gov[c] = "other") =>
        /\ bld[1].pc = "free_rcu"
        /\ rd_pd = 0

(***************************************************************************)
(* SpecBoot: init_cpu_topology step by step, on any device tree:           *)
(* reset_cpu_topology(), parse_dt_topology(), then what follows it.        *)
(***************************************************************************)

\* line 766: reset_cpu_topology()
InitReset ==
    /\ init_pc = "boot"
    /\ cpu_topology' = reset_cpu_topology
    /\ init_log' = <<"reset_cpu_topology">>
    /\ init_pc' = "reset"
    /\ UNCHANGED <<cluster_id, dt, init_ret, sd_vars, pd_vars, store_call>>

\* line 772: parse_dt_topology() has returned
InitParse ==
    /\ init_pc = "reset"
    /\ \E tree \in DeviceTrees :
        LET p == parse_dt_topology(tree,
                    [t |-> cpu_topology, cluster_id |-> cluster_id, ret |-> 0])
        IN  /\ dt' = tree
            /\ cpu_topology' = p.t
            /\ cluster_id' = p.cluster_id
            /\ init_ret' = p.ret
    /\ init_log' = Append(init_log, "parse_dt_topology")
    /\ init_pc' = "parsed"
    /\ UNCHANGED <<sd_vars, pd_vars, store_call>>

\* lines 772-781: the branch on what parse_dt_topology() returned, then
\* init_sched_energy_costs()
InitFinish ==
    /\ init_pc = "parsed"
    /\ LET a == InitAfterParse([ret |-> init_ret, t |-> cpu_topology])
       IN  /\ cpu_topology' = a.t
           /\ init_log' = init_log \o a.log \o <<"init_sched_energy_costs">>
    /\ init_pc' = "done"
    /\ UNCHANGED <<cluster_id, dt, init_ret, sd_vars, pd_vars, store_call>>

BootStepNext ==
    \/ InitReset
    \/ InitParse
    \/ InitFinish

SpecBoot == BootInit /\ [][BootStepNext]_vars

\* ---- the nodes of a cpu-map in the order discovery visits them ----------
\* An event is [k |-> kind, cpu |-> CPU or -1, i |-> thread index or -1]:
\* "core_begin" when a core of a leaf cluster is entered, "thread" and
\* "core" for a node that resolves to a CPU, "leaf_end" when a leaf cluster
\* is completed, "bad" for a structural violation.

DtEvent(k, cpu, i) == [k |-> k, cpu |-> cpu, i |-> i]

RECURSIVE ThreadEvents(_, _)
ThreadEvents(core, i) ==
    IF i > Len(core.threads) THEN <<>>
    ELSE <<IF core.threads[i] \in CPUs
           THEN DtEvent("thread", core.threads[i], i - 1)
           ELSE DtEvent("bad", -1, -1)>> \o ThreadEvents(core, i + 1)

CoreEvents(core, depth, leaf) ==
    IF depth = 0 \/ ~leaf THEN <<DtEvent("bad", -1, -1)>>
    ELSE <<DtEvent("core_begin", -1, -1)>> \o ThreadEvents(core, 1) \o
         (IF core.cpu \in CPUs
          THEN IF core.threads # <<>> THEN <<DtEvent("bad", -1, -1)>>
               ELSE <<DtEvent("core", core.cpu, -1)>>
          ELSE IF core.threads = <<>> THEN <<DtEvent("bad", -1, -1)>>
               ELSE <<>>)

RECURSIVE CoresEvents(_, _, _)
CoresEvents(cluster, depth, i) ==
    IF i > Len(cluster.cores) THEN <<>>
    ELSE CoreEvents(cluster.cores[i], depth, cluster.clusters = <<>>)
            \o CoresEvents(cluster, depth, i + 1)

RECURSIVE ClusterEvents(_, _)
RECURSIVE ClustersEvents(_, _, _)
ClustersEvents(cluster, depth, i) ==
    IF i > Len(cluster.clusters) THEN <<>>
    ELSE ClusterEvents(cluster.clusters[i], depth + 1)
            \o ClustersEvents(cluster, depth, i + 1)

ClusterEvents(cluster, depth) ==
    ClustersEvents(cluster, depth, 1) \o CoresEvents(cluster, depth, 1) \o
    (IF cluster.clusters = <<>> THEN <<DtEvent("leaf_end", -1, -1)>> ELSE <<>>)

\* the events of the device tree init_cpu_topology was run on
DtEvents == IF dt.has_map THEN ClusterEvents(dt.map, 0) ELSE <<>>

\* the events before the first structural violation
FirstBad(ev) ==
    IF \E n \in 1 .. Len(ev) : ev[n].k = "bad"
    THEN CHOOSE n \in 1 .. Len(ev) :
            ev[n].k = "bad" /\ \A m \in 1 .. (n - 1) : ev[m].k # "bad"
    ELSE Len(ev) + 1

Visited(ev) == SubSeq(ev, 1, FirstBad(ev) - 1)

\* the events at which a node that resolves to cpu is visited
WritesOf(ev, cpu) ==
    { n \in 1 .. Len(ev) : ev[n].k \in {"thread", "core"} /\ ev[n].cpu = cpu }

ThreadWritesOf(ev, cpu) ==
    { n \in 1 .. Len(ev) : ev[n].k = "thread" /\ ev[n].cpu = cpu }

\* leaf clusters completed before event n
LeafEndsBefore(ev, n) ==
    Cardinality({ m \in 1 .. (n - 1) : ev[m].k = "leaf_end" })

\* index, among the cores of its leaf cluster, of the core event n is in
CoreIndex(ev, n) ==
    Cardinality({ m \in 1 .. n :
                    /\ ev[m].k = "core_begin"
                    /\ \A q \in m .. n : ev[q].k # "leaf_end" }) - 1

Last(S) == CHOOSE n \in S : \A m \in S : m <= n

AtResetDefault(cpu) ==
    /\ cpu_topology[cpu].cluster_id = -1
    /\ cpu_topology[cpu].core_id = 0
    /\ cpu_topology[cpu].thread_id = -1

(***************************************************************************)
(* C12: when parse_dt_topology() returns 0, every CPU a node of the        *)
(* cpu-map resolves to has cluster_id # -1, and every record is either     *)
(* fully assigned (the CPU is referenced, cluster_id and core_id are set,  *)
(* and thread_id is set exactly when a thread node references the CPU) or  *)
(* entirely at its reset defaults.                                         *)
(***************************************************************************)
C12_SuccessLeavesNoPartialRecord ==
    (init_pc = "parsed" /\ init_ret = 0) =>
        \A cpu \in CPUs :
            /\ WritesOf(DtEvents, cpu) # {} => cpu_topology[cpu].cluster_id # -1
            /\ \/ AtResetDefault(cpu)
               \/ /\ WritesOf(DtEvents, cpu) # {}
                  /\ cpu_topology[cpu].cluster_id # -1
                  /\ cpu_topology[cpu].core_id >= 0
                  /\ (cpu_topology[cpu].thread_id >= 0)
                        = (ThreadWritesOf(DtEvents, cpu) # {})

\* discovery succeeded on a cpu-map where one CPU is a thread of a core and
\* another is a core of its own
C12_Witness ==
    /\ init_pc = "parsed"
    /\ init_ret = 0
    /\ dt.has_map
    /\ \E c \in CPUs, d \in CPUs :
        /\ ThreadWritesOf(DtEvents, c) # {}
        /\ ThreadWritesOf(DtEvents, d) = {}
        /\ cpu_topology[c].thread_id >= 0
        /\ cpu_topology[d].thread_id = -1
        /\ cpu_topology[d].cluster_id # -1

\* the calls of a run whose discovery succeeded, and of one whose failed
SuccessOrder ==
    <<"reset_cpu_topology", "parse_dt_topology", "update_siblings_masks",
      "set_sched_topology", "init_sched_energy_costs">>

FailureOrder ==
    <<"reset_cpu_topology", "parse_dt_topology", "reset_cpu_topology",
      "init_sched_energy_costs">>

IsPrefix(a, b) == Len(a) <= Len(b) /\ a = SubSeq(b, 1, Len(a))

(***************************************************************************)
(* C13 as stated: every run of init_cpu_topology, whether discovery        *)
(* succeeds or fails, makes these calls in this order and skips none:      *)
(* reset, discovery (and reset again if it failed), the sibling recompute  *)
(* of all CPUs, set_sched_topology, init_sched_energy_costs.               *)
(***************************************************************************)
C13_Original ==
    init_pc = "done" =>
        init_log = <<"reset_cpu_topology", "parse_dt_topology">>
                   \o (IF init_ret # 0 THEN <<"reset_cpu_topology">> ELSE <<>>)
                   \o <<"update_siblings_masks", "set_sched_topology",
                        "init_sched_energy_costs">>

(***************************************************************************)
(* C13 as amended: a run makes its calls in this order: reset, discovery,  *)
(* then the sibling recompute of all CPUs and set_sched_topology if        *)
(* discovery succeeded, or a second reset alone if it failed, and last     *)
(* init_sched_energy_costs; at no moment has a call been made before one   *)
(* that precedes it in that order.                                         *)
(***************************************************************************)
C13_StepsInOrderByOutcome ==
    /\ IsPrefix(init_log, SuccessOrder) \/ IsPrefix(init_log, FailureOrder)
    /\ init_pc = "done" =>
            init_log = IF init_ret = 0 THEN SuccessOrder ELSE FailureOrder

\* a run whose discovery failed has returned: no sibling recompute, no
\* set_sched_topology
C13_Witness ==
    /\ init_pc = "done"
    /\ init_ret # 0
    /\ dt.has_map
    /\ init_log = FailureOrder

(***************************************************************************)
(* C14: sd_degenerate returns 1 for every domain whose span holds exactly  *)
(* one CPU, whatever its flags and its number of groups.                   *)
(***************************************************************************)
C14_SingleCpuSpanIsDegenerate ==
    (sd_call.fn = "sd_degenerate" /\ Cardinality(sd_call.sd.span) = 1) =>
        sd_call.ret = 1

\* called on a one-CPU domain that has a flag needing groups, groups, and
\* SD_WAKE_AFFINE
C14_Witness ==
    /\ sd_call.fn = "sd_degenerate"
    /\ Cardinality(sd_call.sd.span) = 1
    /\ {"SD_LOAD_BALANCE", "SD_WAKE_AFFINE"} \subseteq sd_call.sd.flags
    /\ sd_call.sd.groups = MaxGroups
    /\ sd_call.ret = 1

\* p_effective as C17 states it: the flags needing groups are cleared when
\* p has at most one group, SD_SERIALIZE when there is one memory node
C17_EffectiveFlags(p, nr_node_ids) ==
    ((IF p.groups <= 1 THEN p.flags \ SdParentGroupFlags ELSE p.flags)
        \ (IF nr_node_ids = 1 THEN {"SD_SERIALIZE"} ELSE {}))

(***************************************************************************)
(* C17: for d and p with equal spans and p not degenerate,                 *)
(* sd_parent_degenerate(d, p) is true iff every flag of p_effective is in  *)
(* d.flags, where p_effective is p.flags with the flags needing groups     *)
(* cleared only when p has at most one group and SD_SERIALIZE cleared when *)
(* there is a single memory node.                                          *)
(***************************************************************************)
C17_Original ==
    (/\ sd_call.fn = "sd_parent_degenerate"
     /\ sd_call.sd.span = sd_call.parent.span
     /\ sd_degenerate(sd_call.parent) = 0) =>
        (sd_call.ret = 1)
            = (C17_EffectiveFlags(sd_call.parent, sd_call.nr_node_ids)
                    \subseteq sd_call.sd.flags)

OnlineStoreCpuTopology ==
    /\ init_pc = "done"
    /\ \E cpuid \in CPUs, mpidr \in MpidrValues :
        cpu_topology' = store_cpu_topology(cpu_topology, cpuid, mpidr)
    /\ UNCHANGED <<init_vars, sd_vars, pd_vars, store_call>>

OnlineNext ==
    \/ InitReset
    \/ InitParse
    \/ InitFinish
    \/ OnlineStoreCpuTopology

SpecOnline == BootInit /\ [][OnlineNext]_vars

(***************************************************************************)
(* C15: in every state reached by init_cpu_topology followed by any        *)
(* store_cpu_topology calls, also when the device tree has no cpu-map and  *)
(* the ids come from MPIDR, the sibling masks agree with the ids: a CPU y  *)
(* other than x in core_sibling(x) has the cluster_id of x, and one in     *)
(* thread_sibling(x) has the cluster_id and the core_id of x.              *)
(***************************************************************************)
C15_Original ==
    init_pc = "done" =>
        \A x \in CPUs, y \in CPUs :
            /\ (y # x /\ y \in cpu_topology[x].core_sibling) =>
                    cpu_topology[x].cluster_id = cpu_topology[y].cluster_id
            /\ (y # x /\ y \in cpu_topology[x].thread_sibling) =>
                    /\ cpu_topology[x].cluster_id = cpu_topology[y].cluster_id
                    /\ cpu_topology[x].core_id = cpu_topology[y].core_id

(***************************************************************************)
(* C19: in the state parse_dt_topology() returns in, whether it failed or  *)
(* not, the cluster_id counter is the number of leaf clusters completed,   *)
(* empty ones included and non-leaf ones not; a CPU the traversal wrote    *)
(* has for cluster_id the number of leaf clusters completed before its     *)
(* last node, for core_id the index of that node's core among the cores of *)
(* its leaf cluster, and for thread_id the index of its last thread node   *)
(* (-1 if it has none); the other CPUs are as reset left them.             *)
(***************************************************************************)
C19_FlatClusterCounter ==
    (init_pc = "parsed" /\ dt.has_map) =>
        LET ev == Visited(DtEvents)
        IN  /\ cluster_id = LeafEndsBefore(ev, Len(ev) + 1)
            /\ \A cpu \in CPUs :
                IF WritesOf(ev, cpu) = {} THEN AtResetDefault(cpu)
                ELSE /\ cpu_topology[cpu].cluster_id
                            = LeafEndsBefore(ev, Last(WritesOf(ev, cpu)))
                     /\ cpu_topology[cpu].core_id
                            = CoreIndex(ev, Last(WritesOf(ev, cpu)))
                     /\ cpu_topology[cpu].thread_id
                            = IF ThreadWritesOf(ev, cpu) = {} THEN -1
                              ELSE ev[Last(ThreadWritesOf(ev, cpu))].i

\* discovery succeeded on a cpu-map whose first leaf cluster is empty and
\* whose second, nested or not, holds both CPUs: they are in cluster 1
C19_Witness ==
    /\ init_pc = "parsed"
    /\ init_ret = 0
    /\ dt.has_map
    /\ Len(dt.map.clusters) = 2
    /\ dt.map.clusters[1] = EmptyCluster
    /\ cluster_id = 2
    /\ \A cpu \in CPUs : cpu_topology[cpu].cluster_id = 1
    /\ \E cpu \in CPUs : cpu_topology[cpu].core_id = 1

(***************************************************************************)
(* C20: a cpu-map with a structural violation (a core under the root, a    *)
(* core under a cluster that has cluster children, a thread that resolves  *)
(* to no CPU, a core with threads that also resolves to a CPU, a core      *)
(* without threads that resolves to no CPU) makes parse_dt_topology()      *)
(* return -EINVAL with nothing visited after the first violation: the      *)
(* counter and the CPUs written are those of the nodes before it. A        *)
(* cpu-map without violation that references every possible CPU is         *)
(* accepted.                                                               *)
(***************************************************************************)
C20_ViolationStopsDiscovery ==
    (init_pc = "parsed" /\ dt.has_map) =>
        LET ev  == DtEvents
            vis == Visited(DtEvents)
        IN  /\ FirstBad(ev) <= Len(ev) =>
                    /\ init_ret = -EINVAL
                    /\ cluster_id = LeafEndsBefore(vis, Len(vis) + 1)
                    /\ \A cpu \in CPUs :
                        (cpu_topology[cpu].cluster_id # -1)
                            = (WritesOf(vis, cpu) # {})
            /\ (/\ FirstBad(ev) > Len(ev)
                /\ \A cpu \in CPUs : WritesOf(ev, cpu) # {}) =>
                    init_ret = 0

\* discovery failed on a violation in the first cluster, before a node of
\* the second cluster that resolves to a CPU: that CPU is not written and
\* no cluster is counted
C20_Witness ==
    /\ init_pc = "parsed"
    /\ dt.has_map
    /\ init_ret = -EINVAL
    /\ Len(dt.map.clusters) = 2
    /\ cluster_id = 0
    /\ \E d \in CPUs :
        /\ WritesOf(DtEvents, d) # {}
        /\ WritesOf(Visited(DtEvents), d) = {}
        /\ cpu_topology[d].cluster_id = -1

(***************************************************************************)
(* SpecStore: discovery writes and sibling recomputations on the reset     *)
(* table, as init_cpu_topology makes them, then store_cpu_topology for the *)
(* CPUs that come up, in any order, any number of times, with any MPIDR.   *)
(***************************************************************************)
BootThreadWrite == ~store_call.online /\ DiscoveryThreadWrite

BootCoreWrite == ~store_call.online /\ DiscoveryCoreWrite

BootUpdateSiblingsMasks == ~store_call.online /\ UpdateSiblingsMasks

StoreCall ==
    \E cpuid \in CPUs, mpidr \in MpidrValues :
        /\ cpu_topology' = store_cpu_topology(cpu_topology, cpuid, mpidr)
        /\ store_call' = [cpuid |-> cpuid,
                          up |-> BitSet(mpidr, MPIDR_UP_BITMASK),
                          mt |-> BitSet(mpidr, MPIDR_MT_BITMASK),
                          populated |-> cpu_topology[cpuid].cluster_id # -1,
                          seq |-> 1 - store_call.seq, online |-> TRUE]
        /\ UNCHANGED <<init_vars, sd_vars, pd_vars>>

StoreNext ==
    \/ BootThreadWrite
    \/ BootCoreWrite
    \/ BootUpdateSiblingsMasks
    \/ StoreCall

SpecStore == TopoInit /\ [][StoreNext]_vars

Ids(t, cpu) == <<t[cpu].cluster_id, t[cpu].core_id, t[cpu].thread_id>>

\* one store_cpu_topology call, seen from both of its ends
C21_Call ==
    store_call'.seq # store_call.seq =>
        LET cpuid == store_call'.cpuid
        IN  /\ cpu_topology[cpuid].cluster_id # -1 =>
                /\ \A cpu \in CPUs :
                    /\ Ids(cpu_topology', cpu) = Ids(cpu_topology, cpu)
                    /\ cpu_topology[cpu].core_sibling
                            \subseteq cpu_topology'[cpu].core_sibling
                    /\ cpu_topology[cpu].thread_sibling
                            \subseteq cpu_topology'[cpu].thread_sibling
                /\ cpu_topology'[cpuid].cluster_id # -1
            /\ (/\ cpu_topology[cpuid].cluster_id = -1
                /\ store_call'.up) =>
                /\ cpu_topology' = cpu_topology
                /\ Ids(cpu_topology', cpuid) = Ids(reset_cpu_topology, cpuid)
            /\ cpu_topology'[cpuid].cluster_id = -1 => store_call'.up

RECURSIVE UsmCalls(_, _)
UsmCalls(t, order) ==
    IF order = <<>>
    THEN t
    ELSE UsmCalls(update_siblings_masks(t, Head(order)), Tail(order))

\* the orders in which each CPU of S is called once
Orders(S) ==
    {order \in [1..Cardinality(S) -> S] :
        \A i \in 1..Cardinality(S), j \in 1..Cardinality(S) :
            order[i] = order[j] => i = j}

(***************************************************************************)
(* C22: on every table reachable by discovery writes and calls,            *)
(* update_siblings_masks changes no id; a second call for the same CPU     *)
(* right after the first changes nothing; and for every set of CPUs, one   *)
(* call per CPU of the set gives the same table in whatever order the      *)
(* calls are made.                                                         *)
(***************************************************************************)
C22_IdempotentCommutative ==
    /\ \A cpuid \in CPUs :
        LET once == update_siblings_masks(cpu_topology, cpuid)
        IN  /\ \A cpu \in CPUs : Ids(once, cpu) = Ids(cpu_topology, cpu)
            /\ update_siblings_masks(once, cpuid) = once
    /\ \A S \in SUBSET CPUs :
        \A p \in Orders(S), q \in Orders(S) :
            UsmCalls(cpu_topology, p) = UsmCalls(cpu_topology, q)

\* two populated CPUs with the cluster_id and core_id of each other that
\* are not yet linked: a call for either of them adds bits to the masks of
\* both
C22_Witness ==
    \E x \in CPUs, y \in CPUs :
        /\ x # y
        /\ cpu_topology[x].cluster_id = cpu_topology[y].cluster_id
        /\ cpu_topology[x].core_id = cpu_topology[y].core_id
        /\ cpu_topology[x].cluster_id # -1
        /\ y \notin cpu_topology[x].core_sibling
        /\ update_siblings_masks(cpu_topology, x) # cpu_topology
        /\ y \in update_siblings_masks(cpu_topology, x)[x].thread_sibling
        /\ x \in update_siblings_masks(cpu_topology, y)[y].thread_sibling

====
